---- MODULE Spec2Model ----
(***************************************************************************)
(* A model of xscreensaver-systemd.c: the delay-lock state machine around  *)
(* PrepareForSleep, the Inhibit/UnInhibit registry, and the event loop     *)
(* that drives both bus connections.                                       *)
(*                                                                         *)
(* Besides the program's own state the model carries three records of what *)
(* the most recent step did, so that the effects of one handler call can   *)
(* be stated: `last' (the message handled and its inputs), `out' (the      *)
(* externally visible effects of the step, in program order) and `held'    *)
(* (the cookies clients have been handed and have not given back); and    *)
(* `beat_live' says that the inhibited count has stayed above zero since   *)
(* the last heartbeat.                                                     *)
(***************************************************************************)
EXTENDS Integers, Sequences, FiniteSets

\* ---------------------------------------------------------------- bounds
\* How many descriptors the process can hold at once (its descriptor table).
MaxFds == 2
\* How many inhibit entries may be live at once.
MaxEntries == 2
\* The size of the cookie space (32 bits in the program).
NumCookies == 2
\* The clock reading at which the exploration stops letting time pass.
MaxTime == 175
\* time(NULL) when the daemon starts.
StartTime == 50

\* ------------------------------------------------------ program constants
EXIT_FAILURE == 1
HEARTBEAT_SECS == 50
POLL_CAP_MS == 50000

Cookies == 0 .. (NumCookies - 1)
FdRange == 0 .. (MaxFds - 1)
NULL == << >>

\* Outcomes of system() in xscreensaver_command.
CmdResults == {"ok", "launchfail", "badexit"}
\* Outcomes of the Inhibit call to the sleep manager and of reading its reply.
AcqOutcomes == {"callfail", "readfail", "nofd", "ok"}
\* The setup calls of xscreensaver_systemd_loop, in program order.
StartupSteps == << "open_user", "vtable_1", "vtable_2", "name_fdo",
                   "name_client", "open_system", "sleep_lock", "add_match" >>
StartupStepSet == { StartupSteps[i] : i \in 1 .. Len(StartupSteps) }

VARIABLES
  pc,                    \* "start", "sys", "user", "poll", "exit"
  exit_code,             \* -1 while running, else the process's exit status
  lock_message,          \* ctx->lock_message: NULL or <<fd>> of the reply held
  lock_fd,               \* ctx->lock_fd
  is_inhibited,          \* ctx->is_inhibited
  inhibit_head,          \* the SLIST of cookies, head first
  use_rand48,            \* the static flag of xscreensaver_get_cookie
  last_deactivate_time,  \* local of the loop
  now,                   \* the wall clock, seconds
  poll_timeout,          \* the value last passed to poll(), milliseconds
  openFds,               \* delay-lock descriptors received and not yet closed
  held,                  \* cookies handed to clients and not yet given back
  beat_live,             \* a heartbeat has run and the count stayed > 0 since
  last,                  \* the message the last step handled
  out                    \* the effects of the last step, in order

vars == << pc, exit_code, lock_message, lock_fd, is_inhibited, inhibit_head,
           use_rand48, last_deactivate_time, now, poll_timeout, openFds,
           held, beat_live, last, out >>

ctxVars == << lock_message, lock_fd, openFds >>
regVars == << is_inhibited, inhibit_head, use_rand48, held >>
timeVars == << last_deactivate_time, now, poll_timeout >>

\* A uniform record for `last'.
\* `follows' and `fresh' are set by the registry calls only: an UnInhibit(c)
\* has follows = 1 when it comes straight after the Inhibit that returned c,
\* and follows = 2 when it comes straight after such an UnInhibit(c); `fresh'
\* says that no live entry carried c when that Inhibit returned it.
\* `gap' and `live' are set by a heartbeat only: the time since the heartbeat
\* before it, and whether the count stayed above zero all that time.
Op(op, arg, cmd, acq, cookie, rc) ==
  [op |-> op, arg |-> arg, cmd |-> cmd, acq |-> acq, cookie |-> cookie,
   rc |-> rc, follows |-> 0, fresh |-> FALSE, gap |-> -1, live |-> FALSE]

Init ==
  /\ pc = "start"
  /\ exit_code = -1
  /\ lock_message = NULL
  /\ lock_fd = -1
  /\ is_inhibited = 0
  /\ inhibit_head = << >>
  /\ use_rand48 = FALSE
  /\ last_deactivate_time = 0
  /\ now = StartTime
  /\ poll_timeout = 0
  /\ openFds = {}
  /\ held = [c \in Cookies |-> 0]
  /\ beat_live = FALSE
  /\ last = Op("none", "none", "none", "none", -1, 0)
  /\ out = << >>

\* ------------------------------------------------------------ SleepInhibitor
\* xscreensaver_command: run "xscreensaver-command -<cmd>"; a failure to
\* launch or a bad exit status is only logged.
xscreensaver_command(cmd, res) ==
  << <<"command", cmd>> >> \o
  ( IF res = "launchfail" THEN << <<"warnx", "exec failed">> >>
    ELSE IF res = "badexit" THEN << <<"warnx", "exited with status">> >>
    ELSE << >> )

\* The descriptor the kernel hands out next: the lowest one not in use.
NewFd == CHOOSE f \in FdRange \ openFds : \A g \in FdRange \ openFds : f <= g

\* xscreensaver_register_sleep_lock: ask the sleep manager for a delay lock.
\* The result carries the function's return value and the context it leaves.
xscreensaver_register_sleep_lock(acq) ==
  IF acq = "callfail"
    THEN [rc |-> -1, lock_message |-> lock_message, lock_fd |-> lock_fd,
          openFds |-> openFds,
          out |-> << <<"inhibit_sleep", acq>>,
                     <<"warnx", "inhibit sleep failed">> >>]
  ELSE IF acq = "readfail"
    THEN [rc |-> -1, lock_message |-> lock_message, lock_fd |-> lock_fd,
          openFds |-> openFds,
          out |-> << <<"inhibit_sleep", acq>>,
                     <<"warnx", "inhibit sleep failed: no lock fd">> >>]
  ELSE IF acq = "nofd"
    THEN [rc |-> 1, lock_message |-> lock_message, lock_fd |-> lock_fd,
          openFds |-> openFds,
          out |-> << <<"inhibit_sleep", acq>>,
                     <<"warnx", "inhibit sleep failed: no lock fd">> >>]
  ELSE [rc |-> 1, lock_message |-> <<NewFd>>, lock_fd |-> NewFd,
        openFds |-> openFds \cup {NewFd},
        out |-> << <<"inhibit_sleep", acq>> >>]

\* xscreensaver_systemd_handler, before_sleep branch, with a close() that
\* comes before the command.
handler_before_sleep_CloseFirst(cmd) ==
  IF lock_message # NULL
    THEN [rc |-> 1, lock_message |-> NULL, lock_fd |-> -1,
          openFds |-> openFds \ {lock_fd},
          out |-> << <<"close", lock_fd>> >>
                    \o xscreensaver_command("suspend", cmd)]
    ELSE [rc |-> 1, lock_message |-> lock_message, lock_fd |-> lock_fd,
          openFds |-> openFds,
          out |-> << <<"warnx", "no context lock">> >>
                    \o xscreensaver_command("suspend", cmd)]

\* The same branch leaving the descriptor to the unref of the message.
handler_before_sleep_UnrefOnly(cmd) ==
  IF lock_message # NULL
    THEN [rc |-> 1, lock_message |-> NULL, lock_fd |-> -1,
          openFds |-> openFds,
          out |-> xscreensaver_command("suspend", cmd)]
    ELSE [rc |-> 1, lock_message |-> lock_message, lock_fd |-> lock_fd,
          openFds |-> openFds,
          out |-> xscreensaver_command("suspend", cmd)
                    \o << <<"warnx", "no context lock">> >>]

\* The same branch without the test of ctx->lock_message.
handler_before_sleep_NoCheck(cmd) ==
  [rc |-> 1, lock_message |-> NULL, lock_fd |-> -1,
   openFds |-> openFds \ {lock_fd},
   out |-> xscreensaver_command("suspend", cmd) \o << <<"close", lock_fd>> >>]

\* The same branch giving up when the command has failed.
handler_before_sleep_AbortOnFail(cmd) ==
  IF cmd # "ok"
    THEN [rc |-> 1, lock_message |-> lock_message, lock_fd |-> lock_fd,
          openFds |-> openFds,
          out |-> xscreensaver_command("suspend", cmd)]
  ELSE IF lock_message # NULL
    THEN [rc |-> 1, lock_message |-> NULL, lock_fd |-> -1,
          openFds |-> openFds \ {lock_fd},
          out |-> xscreensaver_command("suspend", cmd)
                    \o << <<"close", lock_fd>> >>]
    ELSE [rc |-> 1, lock_message |-> lock_message, lock_fd |-> lock_fd,
          openFds |-> openFds,
          out |-> xscreensaver_command("suspend", cmd)
                    \o << <<"warnx", "no context lock">> >>]

\* The same branch closing the descriptor and keeping the context as it is.
handler_before_sleep_NoClear(cmd) ==
  IF lock_message # NULL
    THEN [rc |-> 1, lock_message |-> lock_message, lock_fd |-> lock_fd,
          openFds |-> openFds \ {lock_fd},
          out |-> xscreensaver_command("suspend", cmd)
                    \o << <<"close", lock_fd>> >>]
    ELSE [rc |-> 1, lock_message |-> lock_message, lock_fd |-> lock_fd,
          openFds |-> openFds,
          out |-> xscreensaver_command("suspend", cmd)
                    \o << <<"warnx", "no context lock">> >>]

\* The same branch without the assignment of -1 to ctx->lock_fd.
handler_before_sleep_KeepFd(cmd) ==
  IF lock_message # NULL
    THEN [rc |-> 1, lock_message |-> NULL, lock_fd |-> lock_fd,
          openFds |-> openFds \ {lock_fd},
          out |-> xscreensaver_command("suspend", cmd)
                    \o << <<"close", lock_fd>> >>]
    ELSE [rc |-> 1, lock_message |-> lock_message, lock_fd |-> lock_fd,
          openFds |-> openFds,
          out |-> xscreensaver_command("suspend", cmd)
                    \o << <<"warnx", "no context lock">> >>]

\* xscreensaver_systemd_handler, before_sleep branch: run "suspend", then
\* release the lock if one is held.
handler_before_sleep(cmd) ==
  IF lock_message # NULL
    THEN [rc |-> 1, lock_message |-> NULL, lock_fd |-> -1,
          openFds |-> openFds \ {lock_fd},
          out |-> xscreensaver_command("suspend", cmd)
                    \o << <<"close", lock_fd>> >>]
    ELSE [rc |-> 1, lock_message |-> lock_message, lock_fd |-> lock_fd,
          openFds |-> openFds,
          out |-> xscreensaver_command("suspend", cmd)
                    \o << <<"warnx", "no context lock">> >>]

\* The wake branch that forgets to take the lock again.
handler_after_wake_NoRegister(cmd, acq) ==
  [rc |-> 1, lock_message |-> lock_message, lock_fd |-> lock_fd,
   openFds |-> openFds,
   out |-> xscreensaver_command("deactivate", cmd)]

\* The wake branch that asks a second time when the first request failed.
handler_after_wake_Retry(cmd, acq) ==
  LET r == xscreensaver_register_sleep_lock(acq) IN
  [rc |-> 1, lock_message |-> r.lock_message, lock_fd |-> r.lock_fd,
   openFds |-> r.openFds,
   out |-> xscreensaver_command("deactivate", cmd) \o r.out \o
             ( IF r.rc < 0 THEN r.out ELSE << >> )]

\* xscreensaver_systemd_handler, wake branch: run "deactivate", then take
\* the lock again; a failure is only logged.
handler_after_wake(cmd, acq) ==
  LET r == xscreensaver_register_sleep_lock(acq) IN
  [rc |-> 1, lock_message |-> r.lock_message, lock_fd |-> r.lock_fd,
   openFds |-> r.openFds,
   out |-> xscreensaver_command("deactivate", cmd) \o r.out \o
             ( IF r.rc < 0
                 THEN << <<"warnx", "could not re-register sleep lock">> >>
                 ELSE << >> )]

\* The callback going on with an unread payload as if it were "true".
xscreensaver_systemd_handler_FallThrough(msg, cmd, acq) ==
  IF msg = "malformed"
    THEN LET h == handler_before_sleep("ok") IN
         [h EXCEPT !.out = << <<"warnx", "message read failed">> >> \o @]
  ELSE IF msg = "true" THEN handler_before_sleep(cmd)
  ELSE handler_after_wake(cmd, acq)

\* xscreensaver_systemd_handler: the PrepareForSleep callback.
xscreensaver_systemd_handler(msg, cmd, acq) ==
  IF msg = "malformed"
    THEN [rc |-> 1, lock_message |-> lock_message, lock_fd |-> lock_fd,
          openFds |-> openFds,
          out |-> << <<"warnx", "message read failed">> >>]
  ELSE IF msg = "true" THEN handler_before_sleep(cmd)
  ELSE handler_after_wake(cmd, acq)

\* The room the descriptor table has left decides whether a lock can arrive.
AcqPossible(acq) == acq = "ok" => Cardinality(openFds) < MaxFds

\* ------------------------------------------------------------------ startup
\* xscreensaver_systemd_loop up to the while(1): every setup call in order;
\* the first one that fails sends the function to FAIL and the process exits.
Startup ==
  /\ pc = "start"
  /\ \E failAt \in (StartupStepSet \ {"sleep_lock"}) \cup {"none"},
        acq \in AcqOutcomes \cup {"none"} :
       LET reached == failAt \in {"add_match", "none"}
           r == xscreensaver_register_sleep_lock(acq)
       IN
       /\ (acq = "none") <=> ~reached
       /\ AcqPossible(acq)
       /\ IF ~reached
            THEN /\ pc' = "exit"
                 /\ exit_code' = EXIT_FAILURE
                 /\ UNCHANGED ctxVars
                 /\ out' = << <<"warnx", failAt>> >>
                 /\ last' = Op("startup", failAt, "none", acq, -1, -1)
            ELSE /\ lock_message' = r.lock_message
                 /\ lock_fd' = r.lock_fd
                 /\ openFds' = r.openFds
                 /\ IF r.rc < 0
                      THEN /\ pc' = "exit"
                           /\ exit_code' = EXIT_FAILURE
                           /\ out' = r.out
                           /\ last' = Op("startup", "sleep_lock", "none", acq, -1, r.rc)
                    ELSE IF failAt = "add_match"
                      THEN /\ pc' = "exit"
                           /\ exit_code' = EXIT_FAILURE
                           /\ out' = r.out \o << <<"warnx", failAt>> >>
                           /\ last' = Op("startup", failAt, "none", acq, -1, -1)
                    ELSE /\ pc' = "sys"
                         /\ exit_code' = exit_code
                         /\ out' = r.out
                         /\ last' = Op("startup", "none", "none", acq, -1, r.rc)
  /\ UNCHANGED << regVars, timeVars, beat_live >>

\* ------------------------------------------------- system bus (sleep manager)
\* The dispatch of a signal with a failed re-registration taken as fatal.
ProcessSystemSignal_FatalReacquire ==
  /\ pc = "sys"
  /\ \E msg \in {"true", "false", "malformed"},
        cmd \in CmdResults \cup {"none"},
        acq \in AcqOutcomes \cup {"none"} :
       LET h == xscreensaver_systemd_handler(msg, cmd, acq) IN
       /\ (cmd = "none") <=> (msg = "malformed")
       /\ (acq = "none") <=> (msg # "false")
       /\ AcqPossible(acq)
       /\ lock_message' = h.lock_message
       /\ lock_fd' = h.lock_fd
       /\ openFds' = h.openFds
       /\ out' = h.out
       /\ last' = Op("PrepareForSleep", msg, cmd, acq, -1, h.rc)
       /\ pc' = IF acq \in {"callfail", "readfail"} THEN "exit" ELSE "sys"
       /\ exit_code' = IF acq \in {"callfail", "readfail"}
                         THEN EXIT_FAILURE ELSE exit_code
  /\ UNCHANGED << regVars, timeVars, beat_live >>

\* sd_bus_process(system_bus) dispatches one PrepareForSleep signal to the
\* handler and returns > 0, so the do-while runs again.
ProcessSystemSignal ==
  /\ pc = "sys"
  /\ \E msg \in {"true", "false", "malformed"},
        cmd \in CmdResults \cup {"none"},
        acq \in AcqOutcomes \cup {"none"} :
       LET h == xscreensaver_systemd_handler(msg, cmd, acq) IN
       /\ (cmd = "none") <=> (msg = "malformed")
       /\ (acq = "none") <=> (msg # "false")
       /\ AcqPossible(acq)
       /\ lock_message' = h.lock_message
       /\ lock_fd' = h.lock_fd
       /\ openFds' = h.openFds
       /\ out' = h.out
       /\ last' = Op("PrepareForSleep", msg, cmd, acq, -1, h.rc)
  /\ pc' = "sys"
  /\ UNCHANGED << exit_code, regVars, timeVars, beat_live >>

\* The first do-while going straight to the poll() when it ends.
ProcessSystemDone_SkipUser ==
  /\ pc = "sys"
  /\ pc' = "poll"
  /\ out' = << >>
  /\ last' = Op("process_system", "idle", "none", "none", -1, 0)
  /\ UNCHANGED << exit_code, ctxVars, regVars, timeVars, beat_live >>

\* sd_bus_process(system_bus) returns 0: the first do-while ends.
ProcessSystemDone ==
  /\ pc = "sys"
  /\ pc' = "user"
  /\ out' = << >>
  /\ last' = Op("process_system", "idle", "none", "none", -1, 0)
  /\ UNCHANGED << exit_code, ctxVars, regVars, timeVars, beat_live >>

\* sd_bus_process(system_bus) returns < 0: goto FAIL.
ProcessSystemFail ==
  /\ pc = "sys"
  /\ pc' = "exit"
  /\ exit_code' = EXIT_FAILURE
  /\ out' = << <<"warnx", "Failed to process bus">> >>
  /\ last' = Op("process_system", "fail", "none", "none", -1, -1)
  /\ UNCHANGED << ctxVars, regVars, timeVars, beat_live >>

\* ------------------------------------------------------------ InhibitRegistry
\* xscreensaver_get_cookie: getentropy(), or lrand48() once getentropy() has
\* failed.  Either source can return any value of the cookie space; `c' is
\* the value drawn.  The result carries the cookie and the static flag.
xscreensaver_get_cookie(ent, c) ==
  IF use_rand48
    THEN [cookie |-> c, use_rand48 |-> TRUE]
  ELSE IF ent = "fail"
    THEN [cookie |-> c, use_rand48 |-> TRUE]
  ELSE [cookie |-> c, use_rand48 |-> FALSE]

\* Inhibit without the increment of ctx->is_inhibited.
xscreensaver_method_inhibit_NoIncrement(parse, ent, c) ==
  IF parse = "malformed"
    THEN [rc |-> -1, inhibit_head |-> inhibit_head,
          is_inhibited |-> is_inhibited, use_rand48 |-> use_rand48,
          out |-> << <<"warnx", "Failed to parse method call">> >>]
  ELSE LET g == xscreensaver_get_cookie(ent, c) IN
       [rc |-> 1, inhibit_head |-> <<g.cookie>> \o inhibit_head,
        is_inhibited |-> is_inhibited, use_rand48 |-> g.use_rand48,
        out |-> << <<"reply_u", g.cookie>> >>]

\* Inhibit that draws a second cookie for its reply.
xscreensaver_method_inhibit_TwoDraws(parse, ent, c) ==
  IF parse = "malformed"
    THEN [rc |-> -1, inhibit_head |-> inhibit_head,
          is_inhibited |-> is_inhibited, use_rand48 |-> use_rand48,
          out |-> << <<"warnx", "Failed to parse method call">> >>]
  ELSE LET g == xscreensaver_get_cookie(ent, c)
           g2 == xscreensaver_get_cookie(ent, (c + 1) % NumCookies)
       IN
       [rc |-> 1, inhibit_head |-> <<g2.cookie>> \o inhibit_head,
        is_inhibited |-> is_inhibited + 1, use_rand48 |-> g.use_rand48,
        out |-> << <<"reply_u", g.cookie>> >>]

\* xscreensaver_method_inhibit: a new entry at the head of the list.
xscreensaver_method_inhibit(parse, ent, c) ==
  IF parse = "malformed"
    THEN [rc |-> -1, inhibit_head |-> inhibit_head,
          is_inhibited |-> is_inhibited, use_rand48 |-> use_rand48,
          out |-> << <<"warnx", "Failed to parse method call">> >>]
  ELSE LET g == xscreensaver_get_cookie(ent, c) IN
       [rc |-> 1, inhibit_head |-> <<g.cookie>> \o inhibit_head,
        is_inhibited |-> is_inhibited + 1, use_rand48 |-> g.use_rand48,
        out |-> << <<"reply_u", g.cookie>> >>]

\* The position of the first entry of the list that carries the cookie, or 0.
FirstMatch(list, cookie) ==
  IF \E i \in 1 .. Len(list) : list[i] = cookie
    THEN CHOOSE i \in 1 .. Len(list) :
           /\ list[i] = cookie
           /\ \A j \in 1 .. (i - 1) : list[j] # cookie
    ELSE 0

\* SLIST_REMOVE of the entry at position i.
RemoveAt(list, i) ==
  [k \in 1 .. (Len(list) - 1) |-> IF k < i THEN list[k] ELSE list[k + 1]]

\* UnInhibit that counts down whether or not an entry matched.
xscreensaver_method_uninhibit_CountAlways(parse, cookie) ==
  IF parse = "malformed"
    THEN [rc |-> -1, inhibit_head |-> inhibit_head,
          is_inhibited |-> is_inhibited, found |-> 0,
          out |-> << <<"warnx", "Failed to parse method call">> >>]
  ELSE LET i == FirstMatch(inhibit_head, cookie) IN
       [rc |-> 1,
        inhibit_head |-> IF i # 0 THEN RemoveAt(inhibit_head, i)
                         ELSE inhibit_head,
        is_inhibited |-> IF is_inhibited - 1 < 0 THEN 0 ELSE is_inhibited - 1,
        found |-> IF i # 0 THEN 1 ELSE 0,
        out |-> << <<"reply", "">> >>]

\* UnInhibit that removes the entry and leaves the counter alone.
xscreensaver_method_uninhibit_NoCount(parse, cookie) ==
  IF parse = "malformed"
    THEN [rc |-> -1, inhibit_head |-> inhibit_head,
          is_inhibited |-> is_inhibited, found |-> 0,
          out |-> << <<"warnx", "Failed to parse method call">> >>]
  ELSE LET i == FirstMatch(inhibit_head, cookie) IN
       [rc |-> 1,
        inhibit_head |-> IF i # 0 THEN RemoveAt(inhibit_head, i)
                         ELSE inhibit_head,
        is_inhibited |-> is_inhibited,
        found |-> IF i # 0 THEN 1 ELSE 0,
        out |-> << <<"reply", "">> >>]

\* UnInhibit that answers only when it removed an entry.
xscreensaver_method_uninhibit_ReplyIfFound(parse, cookie) ==
  IF parse = "malformed"
    THEN [rc |-> -1, inhibit_head |-> inhibit_head,
          is_inhibited |-> is_inhibited, found |-> 0,
          out |-> << <<"warnx", "Failed to parse method call">> >>]
  ELSE LET i == FirstMatch(inhibit_head, cookie) IN
       IF i # 0
         THEN [rc |-> 1, inhibit_head |-> RemoveAt(inhibit_head, i),
               is_inhibited |-> IF is_inhibited - 1 < 0 THEN 0
                                ELSE is_inhibited - 1,
               found |-> 1,
               out |-> << <<"reply", "">> >>]
         ELSE [rc |-> 0, inhibit_head |-> inhibit_head,
               is_inhibited |-> is_inhibited, found |-> 0,
               out |-> << >>]

\* xscreensaver_method_uninhibit: SLIST_FOREACH up to the first entry with
\* the cookie, which is removed; the reply is sent whether or not one matched.
xscreensaver_method_uninhibit(parse, cookie) ==
  IF parse = "malformed"
    THEN [rc |-> -1, inhibit_head |-> inhibit_head,
          is_inhibited |-> is_inhibited, found |-> 0,
          out |-> << <<"warnx", "Failed to parse method call">> >>]
  ELSE LET i == FirstMatch(inhibit_head, cookie) IN
       IF i # 0
         THEN [rc |-> 1, inhibit_head |-> RemoveAt(inhibit_head, i),
               is_inhibited |-> IF is_inhibited - 1 < 0 THEN 0
                                ELSE is_inhibited - 1,
               found |-> 1,
               out |-> << <<"reply", "">> >>]
         ELSE [rc |-> 1, inhibit_head |-> inhibit_head,
               is_inhibited |-> is_inhibited, found |-> 0,
               out |-> << <<"reply", "">> >>]

\* How many cookies clients hold.
RECURSIVE SumHeld(_, _)
SumHeld(h, S) ==
  IF S = {} THEN 0
  ELSE LET c == CHOOSE x \in S : TRUE IN h[c] + SumHeld(h, S \ {c})

HeldTotal == SumHeld(held, Cookies)

\* ------------------------------------------------ user bus (inhibit service)
\* sd_bus_process(user_bus) dispatches one Inhibit call through the vtable.
ProcessUserInhibit ==
  /\ pc = "user"
  /\ Len(inhibit_head) < MaxEntries
  /\ \E parse \in {"ok", "malformed"}, ent \in {"ok", "fail", "none"},
        c \in Cookies :
       LET h == xscreensaver_method_inhibit(parse, ent, c) IN
       /\ (ent = "none") <=> (parse = "malformed" \/ use_rand48)
       /\ parse = "malformed" => c = 0
       /\ inhibit_head' = h.inhibit_head
       /\ is_inhibited' = h.is_inhibited
       /\ use_rand48' = h.use_rand48
       /\ held' = IF parse = "ok" THEN [held EXCEPT ![c] = @ + 1] ELSE held
       /\ out' = h.out
       /\ last' = [Op("Inhibit", parse, "none", ent, c, h.rc) EXCEPT
                     !.fresh = (parse = "ok" /\ FirstMatch(inhibit_head, c) = 0)]
  /\ pc' = "user"
  /\ UNCHANGED << exit_code, ctxVars, timeVars, beat_live >>

\* Where an UnInhibit(c) stands in a run Inhibit() -> c, UnInhibit(c),
\* UnInhibit(c) of calls handled one straight after the other.
Follows(parse, c) ==
  IF parse # "ok" \/ last.arg # "ok" \/ last.cookie # c THEN 0
  ELSE IF last.op = "Inhibit" THEN 1
  ELSE IF last.op = "UnInhibit" /\ last.follows = 1 THEN 2
  ELSE 0

\* sd_bus_process(user_bus) dispatches one UnInhibit call.  The call gives
\* back a cookie that is out with a client ("matched") or carries one that
\* is not ("spurious": a second release, a stale or a made-up cookie).
ProcessUserUnInhibit ==
  /\ pc = "user"
  /\ \E parse \in {"ok", "malformed"}, kind \in {"matched", "spurious", "none"},
        c \in Cookies :
       LET h == xscreensaver_method_uninhibit(parse, c) IN
       /\ (kind = "none") <=> (parse = "malformed")
       /\ parse = "malformed" => c = 0
       /\ (kind = "matched") <=> (parse = "ok" /\ held[c] > 0)
       /\ inhibit_head' = h.inhibit_head
       /\ is_inhibited' = h.is_inhibited
       /\ held' = IF kind = "matched" THEN [held EXCEPT ![c] = @ - 1] ELSE held
       /\ beat_live' = (beat_live /\ h.is_inhibited > 0)
       /\ out' = h.out
       /\ last' = [Op("UnInhibit", parse, kind, "none", c, h.rc) EXCEPT
                     !.follows = Follows(parse, c),
                     !.fresh = (Follows(parse, c) # 0 /\ last.fresh)]
  /\ pc' = "user"
  /\ UNCHANGED << exit_code, ctxVars, use_rand48, timeVars >>

\* sd_bus_process(user_bus) returns 0: the second do-while ends.
ProcessUserDone ==
  /\ pc = "user"
  /\ pc' = "poll"
  /\ out' = << >>
  /\ last' = Op("process_user", "idle", "none", "none", -1, 0)
  /\ UNCHANGED << exit_code, ctxVars, regVars, timeVars, beat_live >>

\* sd_bus_process(user_bus) returns < 0: goto FAIL.
ProcessUserFail ==
  /\ pc = "user"
  /\ pc' = "exit"
  /\ exit_code' = EXIT_FAILURE
  /\ out' = << <<"warnx", "Failed to process bus">> >>
  /\ last' = Op("process_user", "fail", "none", "none", -1, -1)
  /\ UNCHANGED << ctxVars, regVars, timeVars, beat_live >>

\* ------------------------------------------------------------------ EventLoop
\* A uint64_t is carried as three limbs <<a, b, c>> of value
\* (a * 10^6 + b) * 10^6 + c, so that 2^64 - 1 and its quotient by 10^6 are
\* exact.
UINT64_MAX == << 18446744, 73709, 551615 >>
U64Zero == << 0, 0, 0 >>

U64Less(x, y) ==
  \/ x[1] < y[1]
  \/ x[1] = y[1] /\ x[2] < y[2]
  \/ x[1] = y[1] /\ x[2] = y[2] /\ x[3] < y[3]

\* poll_timeout /= 1000000
U64Div1000000(x) == << 0, x[1], x[2] >>

\* poll_timeout > 50000
U64Above(x, n) == x[1] > 0 \/ x[2] > 0 \/ x[3] > n

\* What sd_bus_get_timeout can report, in microseconds: nothing to wait for,
\* 1 us, 25 s, 50000 s, 50001 s, and "no timeout".
Timeouts == { U64Zero, << 0, 0, 1 >>, << 0, 25, 0 >>, << 0, 50000, 0 >>,
              << 0, 50001, 0 >>, UINT64_MAX }

\* The computation with the limit at twice the heartbeat period.
PollTimeout_DoubleCap(timeout, user_timeout) ==
  IF timeout = U64Zero /\ user_timeout = U64Zero THEN 0
  ELSE IF timeout = UINT64_MAX /\ user_timeout = UINT64_MAX
    THEN 2 * POLL_CAP_MS
  ELSE LET q == U64Div1000000(IF U64Less(timeout, user_timeout)
                                THEN timeout ELSE user_timeout)
       IN IF U64Above(q, 2 * POLL_CAP_MS) THEN 2 * POLL_CAP_MS ELSE q[3]

\* The computation with poll_timeout held in a signed int: -1 stays -1 and
\* passes the test against 50000.
PollTimeout_Signed(timeout, user_timeout) ==
  IF timeout = U64Zero /\ user_timeout = U64Zero THEN 0
  ELSE IF timeout = UINT64_MAX /\ user_timeout = UINT64_MAX THEN -1
  ELSE LET q == U64Div1000000(IF U64Less(timeout, user_timeout)
                                THEN timeout ELSE user_timeout)
       IN IF U64Above(q, POLL_CAP_MS) THEN POLL_CAP_MS ELSE q[3]

\* The loop's computation of the value it passes to poll().
PollTimeout(timeout, user_timeout) ==
  LET combined ==
        IF timeout = U64Zero /\ user_timeout = U64Zero THEN U64Zero
        ELSE IF timeout = UINT64_MAX /\ user_timeout = UINT64_MAX
          THEN UINT64_MAX     \* poll_timeout = -1 in a uint64_t
        ELSE U64Div1000000(IF U64Less(timeout, user_timeout)
                             THEN timeout ELSE user_timeout)
  IN IF U64Above(combined, POLL_CAP_MS) THEN POLL_CAP_MS ELSE combined[3]

\* How long poll() may have blocked, in seconds, given its timeout; a
\* negative timeout makes poll() wait without limit.
Elapsed(ms) ==
  { e \in {0, 25, 50, 75, 100} : (ms < 0 \/ e * 1000 <= ms) /\ now + e <= MaxTime }

\* The heartbeat test without the 50 second threshold.
HeartbeatDue_EveryWake(t) == is_inhibited # 0

\* The heartbeat test without the test of ctx->is_inhibited.
HeartbeatDue_Unconditional(t) == t - last_deactivate_time >= HEARTBEAT_SECS

\* The heartbeat test of the loop at clock reading t.
HeartbeatDue(t) == is_inhibited # 0 /\ t - last_deactivate_time >= HEARTBEAT_SECS

\* The rest of one loop iteration: compute the timeout, poll(), heartbeat.
PollStep ==
  /\ pc = "poll"
  /\ \E timeout \in Timeouts, user_timeout \in Timeouts,
        prc \in {"ok", "fail"}, cmd \in CmdResults \cup {"none"} :
       LET ms == PollTimeout(timeout, user_timeout) IN
       /\ poll_timeout' = ms
       /\ IF prc = "fail"
            THEN /\ cmd = "none"
                 /\ pc' = "exit"
                 /\ exit_code' = EXIT_FAILURE
                 /\ out' = << <<"err", "poll()">> >>
                 /\ last' = Op("poll", "fail", "none", "none", -1, -1)
                 /\ UNCHANGED << now, last_deactivate_time, beat_live >>
            ELSE \E e \in Elapsed(ms) :
                 /\ now' = now + e
                 /\ pc' = "sys"
                 /\ exit_code' = exit_code
                 /\ (cmd = "none") <=> ~HeartbeatDue(now + e)
                 /\ IF HeartbeatDue(now + e)
                      THEN /\ out' = xscreensaver_command("deactivate", cmd)
                           /\ last_deactivate_time' = now + e
                           /\ beat_live' = TRUE
                           /\ last' = [Op("poll", "heartbeat", cmd, "none", -1, 0)
                                        EXCEPT !.gap = now + e - last_deactivate_time,
                                               !.live = beat_live]
                      ELSE /\ out' = << >>
                           /\ last_deactivate_time' = last_deactivate_time
                           /\ beat_live' = beat_live
                           /\ last' = Op("poll", "quiet", cmd, "none", -1, 0)
  /\ UNCHANGED << ctxVars, regVars >>

Next ==
  \/ Startup
  \/ ProcessSystemSignal
  \/ ProcessSystemDone
  \/ ProcessSystemFail
  \/ ProcessUserInhibit
  \/ ProcessUserUnInhibit
  \/ ProcessUserDone
  \/ ProcessUserFail
  \/ PollStep

Spec == Init /\ [][Next]_vars

TypeOK ==
  /\ pc \in {"start", "sys", "user", "poll", "exit"}
  /\ exit_code \in {-1, EXIT_FAILURE}
  /\ lock_fd \in FdRange \cup {-1}
  /\ is_inhibited \in 0 .. MaxEntries
  /\ Len(inhibit_head) <= MaxEntries
  /\ use_rand48 \in BOOLEAN
  /\ openFds \subseteq FdRange
  /\ now \in StartTime .. MaxTime

\* =================================================================== claims
\* How many effects of a kind a step had, and how many with a given argument.
CountKind(seq, kind) ==
  Cardinality({ i \in 1 .. Len(seq) : seq[i][1] = kind })

CountEffect(seq, kind, arg) ==
  Cardinality({ i \in 1 .. Len(seq) : seq[i][1] = kind /\ seq[i][2] = arg })

\* Some effect of kind k1 with argument a1 comes before position i.
Before(seq, i, k1, a1) ==
  \E j \in 1 .. (i - 1) : seq[j][1] = k1 /\ seq[j][2] = a1

IsSignal(l, arg) == l.op = "PrepareForSleep" /\ l.arg = arg

AcquireFailed(l) == l.acq \in {"callfail", "readfail", "nofd"}

\* C1: whenever a step closes a delay-lock descriptor, the "suspend" command
\* of the same step has run before the close, and a descriptor leaves the
\* set of open ones only by such a close.
C1_SuspendBeforeRelease ==
  [][ /\ \A i \in 1 .. Len(out') :
           out'[i][1] = "close" => Before(out', i, "command", "suspend")
      /\ \A fd \in openFds \ openFds' :
           /\ IsSignal(last', "true")
           /\ CountEffect(out', "close", fd) = 1 ]_vars

C1_Witness ==
  /\ IsSignal(last, "true")
  /\ Len(out) >= 2
  /\ out[1] = <<"command", "suspend">>
  /\ out[Len(out)][1] = "close"

\* C2: PrepareForSleep(true) handled with a lock held runs "suspend" exactly
\* once, closes the held descriptor, and leaves no lock message and
\* descriptor -1.
C2_ReleaseOnSleep ==
  [][ (lock_message # NULL /\ IsSignal(last', "true")) =>
        /\ CountEffect(out', "command", "suspend") = 1
        /\ CountKind(out', "command") = 1
        /\ CountEffect(out', "close", lock_fd) = 1
        /\ lock_fd \notin openFds'
        /\ lock_message' = NULL
        /\ lock_fd' = -1 ]_vars

C2_Witness ==
  /\ IsSignal(last, "true")
  /\ CountKind(out, "close") = 1
  /\ lock_message = NULL
  /\ lock_fd = -1
  /\ openFds = {}

\* C3: PrepareForSleep(false) handled with no lock held runs "deactivate"
\* exactly once, then asks the sleep manager exactly once; when the manager
\* grants a lock the daemon holds it afterwards.
C3_ReacquireOnWake ==
  [][ (lock_message = NULL /\ IsSignal(last', "false")) =>
        /\ CountEffect(out', "command", "deactivate") = 1
        /\ CountKind(out', "command") = 1
        /\ CountKind(out', "inhibit_sleep") = 1
        /\ \A i \in 1 .. Len(out') :
             out'[i][1] = "inhibit_sleep" =>
               Before(out', i, "command", "deactivate")
        /\ last'.acq = "ok" =>
             /\ lock_message' # NULL
             /\ lock_fd' >= 0
             /\ lock_fd' \in openFds' ]_vars

C3_Witness ==
  /\ IsSignal(last, "false")
  /\ last.acq = "ok"
  /\ lock_message # NULL
  /\ Cardinality(openFds) = 1

\* C4 (as claimed): at most one delay lock received from the sleep manager
\* is open at any time.
C4_AtMostOneLock == Cardinality(openFds) <= 1

\* C5 (as claimed): a startup in which a setup call fails, or in which the
\* initial lock request fails or brings no valid descriptor, ends in exit
\* with failure status instead of the event loop.
C5_StartupFailureExits ==
  ( /\ last.op = "startup"
    /\ (last.arg # "none" \/ AcquireFailed(last)) )
  => (pc = "exit" /\ exit_code = EXIT_FAILURE)

\* C6: when the lock request made on PrepareForSleep(false) fails, the
\* daemon keeps running in the loop with its lock state untouched, after one
\* request only; and no step other than startup and PrepareForSleep(false)
\* asks the sleep manager for a lock.
C6_FailedReacquire ==
  [][ /\ (IsSignal(last', "false") /\ AcquireFailed(last')) =>
           /\ pc' = "sys"
           /\ exit_code' = -1
           /\ lock_message' = lock_message
           /\ lock_fd' = lock_fd
           /\ openFds' = openFds
           /\ CountKind(out', "inhibit_sleep") = 1
      /\ CountKind(out', "inhibit_sleep") > 0 =>
           (IsSignal(last', "false") \/ last'.op = "startup") ]_vars

C6_Witness ==
  /\ IsSignal(last, "false")
  /\ AcquireFailed(last)
  /\ lock_message = NULL
  /\ pc = "sys"

\* C7: PrepareForSleep(true) handled with no lock held runs "suspend" exactly
\* once, closes nothing, stays without a lock, returns success and leaves
\* the daemon in the loop.
C7_SleepWithoutLock ==
  [][ (lock_message = NULL /\ IsSignal(last', "true")) =>
        /\ CountEffect(out', "command", "suspend") = 1
        /\ CountKind(out', "command") = 1
        /\ CountKind(out', "close") = 0
        /\ openFds' = openFds
        /\ lock_message' = NULL
        /\ lock_fd' = -1
        /\ last'.rc >= 0
        /\ pc' = "sys"
        /\ exit_code' = -1 ]_vars

C7_Witness ==
  /\ IsSignal(last, "true")
  /\ CountEffect(out, "warnx", "no context lock") = 1
  /\ lock_message = NULL

\* C8: the counter equals the number of cookies handed out by Inhibit and
\* not yet given back by an UnInhibit (the unmatched Inhibit calls), whatever
\* UnInhibit calls with cookies nobody holds were made, and it is never
\* negative.
C8_CountIsUnmatched == is_inhibited = HeldTotal /\ is_inhibited >= 0

C8_Witness ==
  /\ last.op = "UnInhibit"
  /\ last.cmd = "spurious"
  /\ is_inhibited = HeldTotal
  /\ is_inhibited = 1

\* C9 (as claimed): UnInhibit(c) straight after Inhibit() -> c removes one
\* entry and counts down by one, and a second UnInhibit(c) changes nothing.
C9_ReleaseThenNoop ==
  [][ /\ (last'.op = "UnInhibit" /\ last'.follows = 1) =>
           /\ Len(inhibit_head') = Len(inhibit_head) - 1
           /\ is_inhibited' = is_inhibited - 1
      /\ (last'.op = "UnInhibit" /\ last'.follows = 2) =>
           /\ inhibit_head' = inhibit_head
           /\ is_inhibited' = is_inhibited ]_vars

\* C9 (amended): the same, the second UnInhibit(c) changing nothing when no
\* live entry carried c at the time Inhibit() returned it.
C9_ReleaseThenNoopIfFresh ==
  [][ /\ (last'.op = "UnInhibit" /\ last'.follows = 1) =>
           /\ Len(inhibit_head') = Len(inhibit_head) - 1
           /\ is_inhibited' = is_inhibited - 1
      /\ (last'.op = "UnInhibit" /\ last'.follows = 2 /\ last'.fresh) =>
           /\ inhibit_head' = inhibit_head
           /\ is_inhibited' = is_inhibited ]_vars

C9_Witness ==
  /\ last.op = "UnInhibit"
  /\ last.follows = 2
  /\ last.fresh
  /\ Len(inhibit_head) = 1

NoDup(list) ==
  \A i \in 1 .. Len(list) : \A j \in 1 .. Len(list) :
    i # j => list[i] # list[j]

\* C11 (as claimed): no two live inhibit entries carry the same cookie.
C11_CookiesDistinct == NoDup(inhibit_head)

\* C11 (amended): every Inhibit answers with the cookie of the entry it puts
\* at the head of the list, and the live entries' cookies stay pairwise
\* distinct across every step except an Inhibit whose drawn cookie is
\* already carried by a live entry.
C11_DistinctUnlessDrawnLive ==
  [][ /\ (last'.op = "Inhibit" /\ last'.arg = "ok") =>
           /\ Len(inhibit_head') = Len(inhibit_head) + 1
           /\ out' = << <<"reply_u", inhibit_head'[1]>> >>
           /\ last'.cookie = inhibit_head'[1]
           /\ \A i \in 1 .. Len(inhibit_head) :
                inhibit_head'[i + 1] = inhibit_head[i]
      /\ ( /\ NoDup(inhibit_head)
           /\ ~(last'.op = "Inhibit" /\ last'.arg = "ok" /\ ~last'.fresh) )
           => NoDup(inhibit_head') ]_vars

C11_Witness ==
  /\ last.op = "Inhibit"
  /\ last.fresh
  /\ Len(inhibit_head) = 2
  /\ NoDup(inhibit_head)

IsHeartbeat(l) == l.op = "poll" /\ l.arg = "heartbeat"

\* C12: a heartbeat runs "deactivate" once, at least 50 seconds after the
\* heartbeat before it, and records its time; the recorded time changes in
\* no other step; and a poll() that lasted the full 50 seconds while the
\* count is above zero is followed by a heartbeat.
C12_HeartbeatSpacing ==
  [][ /\ IsHeartbeat(last') =>
           /\ now' - last_deactivate_time >= HEARTBEAT_SECS
           /\ last'.gap = now' - last_deactivate_time
           /\ last_deactivate_time' = now'
           /\ out'[1] = <<"command", "deactivate">>
           /\ CountKind(out', "command") = 1
      /\ last_deactivate_time' # last_deactivate_time => IsHeartbeat(last')
      /\ ( /\ last'.op = "poll"
           /\ last'.arg # "fail"
           /\ is_inhibited # 0
           /\ now' - now >= HEARTBEAT_SECS ) => IsHeartbeat(last') ]_vars

C12_Witness ==
  /\ IsHeartbeat(last)
  /\ last.live
  /\ last.gap = HEARTBEAT_SECS
  /\ poll_timeout = POLL_CAP_MS

\* C13: the step after poll() runs no command and leaves the recorded
\* heartbeat time alone when the inhibited count is zero; it runs
\* "deactivate" or changes the recorded time only with the count above zero.
C13_HeartbeatOnlyWhileInhibited ==
  [][ last'.op = "poll" =>
        /\ is_inhibited = 0 =>
             /\ CountKind(out', "command") = 0
             /\ last_deactivate_time' = last_deactivate_time
        /\ ( \/ CountKind(out', "command") > 0
             \/ last_deactivate_time' # last_deactivate_time ) =>
             is_inhibited > 0 ]_vars

C13_Witness ==
  /\ last.op = "poll"
  /\ last.arg = "quiet"
  /\ is_inhibited = 0
  /\ now - last_deactivate_time >= HEARTBEAT_SECS
  /\ pc = "sys"

\* C14: whatever the two connections report as their timeouts, the value
\* passed to poll() lies between 0 and 50000 ms (never negative, which would
\* mean no limit), and poll() returns within 50 seconds.
C14_PollTimeoutCapped ==
  [][ last'.op = "poll" =>
        /\ poll_timeout' >= 0
        /\ poll_timeout' <= POLL_CAP_MS
        /\ \A t1 \in Timeouts : \A t2 \in Timeouts :
             PollTimeout(t1, t2) \in 0 .. POLL_CAP_MS
        /\ last'.arg # "fail" =>
             /\ now' - now >= 0
             /\ now' - now <= HEARTBEAT_SECS ]_vars

C14_Witness ==
  /\ last.op = "poll"
  /\ last.arg # "fail"
  /\ poll_timeout = POLL_CAP_MS
  /\ PollTimeout(UINT64_MAX, UINT64_MAX) = POLL_CAP_MS
  /\ pc = "sys"

InLoop(p) == p \in {"sys", "user", "poll"}

\* C15 (as claimed): once startup has completed no step makes the event
\* loop exit, whatever the result of bus processing or of the blocking wait.
C15_NeverTerminates ==
  [][ InLoop(pc) => pc' # "exit" ]_vars

\* C15 (amended): once startup has completed, the loop exits exactly in a
\* step where sd_bus_process() of one of the two buses or poll() has failed;
\* no signal or method call, whatever the results of the controller command
\* and of the re-registration in it, makes the loop exit.
C15_TerminatesOnlyOnProcessingFailure ==
  [][ InLoop(pc) =>
        /\ (pc' = "exit") <=>
             ( /\ last'.op \in {"process_system", "process_user", "poll"}
               /\ last'.arg = "fail" )
        /\ pc' = "exit" => exit_code' = EXIT_FAILURE
        /\ last'.op \in {"PrepareForSleep", "Inhibit", "UnInhibit"} =>
             /\ pc' = pc
             /\ exit_code' = -1 ]_vars

C15_Witness ==
  /\ IsSignal(last, "false")
  /\ last.cmd = "launchfail"
  /\ last.acq = "callfail"
  /\ pc = "sys"
  /\ exit_code = -1

CmdFailed(l) == l.cmd \in {"launchfail", "badexit"}

\* C16: a step whose controller command fails goes on as it does when the
\* command succeeds: a failed "suspend" with a lock held is followed by the
\* close of the descriptor and leaves no lock, a failed "deactivate" on wake
\* is followed by one request for a new lock, a failed heartbeat "deactivate"
\* is followed by the recording of the time, and the loop does not exit.
C16_CommandFailureIgnored ==
  [][ CmdFailed(last') =>
        /\ CountKind(out', "command") = 1
        /\ out'[1][1] = "command"
        /\ out'[2][1] = "warnx"
        /\ pc' # "exit"
        /\ exit_code' = -1
        /\ (IsSignal(last', "true") /\ lock_message # NULL) =>
             /\ Len(out') = 3
             /\ out'[3] = <<"close", lock_fd>>
             /\ lock_message' = NULL
             /\ lock_fd' = -1
             /\ openFds' = openFds \ {lock_fd}
        /\ IsSignal(last', "false") =>
             /\ CountKind(out', "inhibit_sleep") = 1
             /\ Len(out') >= 3
             /\ out'[3][1] = "inhibit_sleep"
             /\ last'.acq = "ok" => (lock_message' # NULL /\ lock_fd' \in openFds')
        /\ IsHeartbeat(last') => last_deactivate_time' = now' ]_vars

C16_Witness ==
  /\ IsSignal(last, "true")
  /\ last.cmd = "launchfail"
  /\ CountKind(out, "close") = 1
  /\ lock_message = NULL
  /\ pc = "sys"

\* C17: a step that handles a malformed PrepareForSleep, Inhibit or
\* UnInhibit payload runs no controller command, sends no reply, leaves the
\* lock, the entry list and the inhibited count as they were and stays in
\* the loop; the PrepareForSleep callback returns a value >= 0.
C17_MalformedSkipped ==
  [][ ( /\ last'.op \in {"PrepareForSleep", "Inhibit", "UnInhibit"}
        /\ last'.arg = "malformed" ) =>
        /\ CountKind(out', "command") = 0
        /\ CountKind(out', "close") = 0
        /\ CountKind(out', "inhibit_sleep") = 0
        /\ CountKind(out', "warnx") = 1
        /\ Len(out') = 1
        /\ lock_message' = lock_message
        /\ lock_fd' = lock_fd
        /\ openFds' = openFds
        /\ inhibit_head' = inhibit_head
        /\ is_inhibited' = is_inhibited
        /\ pc' = pc
        /\ exit_code' = -1
        /\ last'.op = "PrepareForSleep" => last'.rc >= 0 ]_vars

C17_Witness ==
  /\ IsSignal(last, "malformed")
  /\ lock_message # NULL
  /\ is_inhibited > 0
  /\ pc = "sys"

\* C18: poll() is reached only by the step in which the user bus reports no
\* more work, the user bus is processed only after the step in which the
\* system bus reports no more work, a bus that has dispatched a message is
\* processed again, and an iteration starts with the system bus.
C18_DrainBothBeforePoll ==
  [][ /\ last'.op = "poll" =>
           /\ pc = "poll"
           /\ last.op = "process_user"
           /\ last.arg = "idle"
      /\ (pc' = "poll" /\ pc # "poll") =>
           /\ pc = "user"
           /\ last'.op = "process_user"
           /\ last'.arg = "idle"
      /\ (pc' = "user" /\ pc # "user") =>
           /\ pc = "sys"
           /\ last'.op = "process_system"
           /\ last'.arg = "idle"
      /\ last'.op \in {"Inhibit", "UnInhibit", "process_user"} =>
           /\ pc = "user"
           /\ last.op \in {"process_system", "Inhibit", "UnInhibit"}
      /\ last'.op \in {"PrepareForSleep", "process_system"} => pc = "sys"
      /\ last'.op = "PrepareForSleep" => pc' = "sys"
      /\ last'.op \in {"Inhibit", "UnInhibit"} => pc' = "user"
      /\ (last'.op = "poll" /\ last'.arg # "fail") => pc' = "sys" ]_vars

C18_Witness ==
  /\ pc = "poll"
  /\ last.op = "process_user"
  /\ last.arg = "idle"
  /\ is_inhibited > 0
  /\ lock_message # NULL

\* The caller of the acquire of a step was told that it failed.
AcquireReportedFailure(l, o) ==
  \/ l.op = "startup" /\ l.arg = "sleep_lock"
  \/ l.op = "PrepareForSleep" /\
       CountEffect(o, "warnx", "could not re-register sleep lock") = 1

\* C19: in a step that asks the sleep manager for a lock, the caller is
\* told of success exactly when a message with a descriptor >= 0 has been
\* stored; a reply read without a descriptor is reported as a failure.
C19_AcquireSuccessIffStored ==
  [][ CountKind(out', "inhibit_sleep") = 1 =>
        /\ ~AcquireReportedFailure(last', out') <=>
             ( /\ lock_message' # NULL
               /\ lock_fd' >= 0
               /\ lock_message' = << lock_fd' >>
               /\ openFds' = openFds \cup {lock_fd'}
               /\ openFds' # openFds )
        /\ last'.acq = "nofd" => AcquireReportedFailure(last', out') ]_vars

\* C20: from a heartbeat on and for as long as the inhibited count has not
\* gone back to zero, the recorded heartbeat is never more than 100 time
\* units old, and the next heartbeat comes at most 100 units after it.
C20_HeartbeatGapBounded ==
  /\ beat_live =>
       /\ is_inhibited > 0
       /\ now - last_deactivate_time <= 2 * HEARTBEAT_SECS
  /\ (IsHeartbeat(last) /\ last.live) => last.gap <= 2 * HEARTBEAT_SECS

C20_Witness ==
  /\ IsHeartbeat(last)
  /\ last.live
  /\ last.gap = 75
  /\ is_inhibited > 0

\* C21: a step calls close() at most once, only on the descriptor the
\* context holds, which is >= 0 and open; the close takes the descriptor out
\* of the open ones, so no acquisition is closed twice, and no descriptor
\* leaves the open ones in any other way.
C21_CloseOnlyHeldOnce ==
  [][ /\ CountKind(out', "close") <= 1
      /\ \A i \in 1 .. Len(out') :
           out'[i][1] = "close" =>
             /\ last'.op = "PrepareForSleep"
             /\ lock_message # NULL
             /\ out'[i][2] = lock_fd
             /\ lock_fd >= 0
             /\ lock_fd \in openFds
             /\ lock_fd \notin openFds'
             /\ lock_fd' = -1
      /\ CountKind(out', "close") = 0 => openFds \subseteq openFds' ]_vars

C21_Witness ==
  /\ IsSignal(last, "true")
  /\ CountEffect(out, "close", 1) = 1
  /\ openFds = {0}
  /\ lock_fd = -1

\* C22: the inhibited counter always equals the length of the inhibit list,
\* and a step of UnInhibit that removes an entry finds the counter above
\* zero, so that the clamp at zero is not taken.
C22_CountEqualsEntries ==
  /\ [](is_inhibited = Len(inhibit_head))
  /\ [][ ( /\ last'.op = "UnInhibit"
           /\ Len(inhibit_head') # Len(inhibit_head) ) =>
           /\ is_inhibited - 1 >= 0
           /\ is_inhibited' = is_inhibited - 1
           /\ Len(inhibit_head') = Len(inhibit_head) - 1 ]_vars

C22_Witness ==
  /\ last.op = "UnInhibit"
  /\ last.arg = "ok"
  /\ last.cmd = "matched"
  /\ is_inhibited = 1
  /\ Len(inhibit_head) = 1

\* C23: the context holds a lock message exactly when it holds a descriptor
\* >= 0, the message then being the one that carries that descriptor, and
\* the descriptor then being open.
C23_MessageIffDescriptor ==
  /\ (lock_message # NULL) <=> (lock_fd >= 0)
  /\ lock_message # NULL => (lock_message = << lock_fd >> /\ lock_fd \in openFds)
  /\ lock_message = NULL => lock_fd = -1

C23_Witness ==
  /\ IsSignal(last, "false")
  /\ last.acq = "ok"
  /\ lock_message # NULL
  /\ lock_fd = 0
  /\ openFds = {0}

====
